---- MODULE Spec2Model ----
(***************************************************************************)
(* A model of the aggregation engines of utils/transformers.py             *)
(* (ReadVsUnreadReport, BestRankedReport, get_keys_to_books_dict) and of   *)
(* the Book behaviour exercised by utils/tests/test_book.py.               *)
(***************************************************************************)
EXTENDS Integers, Sequences, FiniteSets

\* ------------------------------------------------------------------------
\* Bounds of the model.
\* ------------------------------------------------------------------------

\* Most books a report is built over in Spec.
MaxBooks == 2

\* Grouping keys are 0..MaxKey.
MaxKey == 2

\* Largest read count and largest unread count of the group in SpecStat.
MaxCount == 29

\* Most rated books of a group in SpecRank, and most of them rated above one
\* star.
MaxRated == 33
MaxAbove == 1

\* ------------------------------------------------------------------------
\* Python floats (IEEE 754 binary64, round to nearest, ties to even).
\* transformers.py line 7 makes "/" true division, so line 61 computes
\* int(100 * (rd / (rd+ur))) in floats.  A positive float is the record
\* [hi, mid, lo, e]: its 53-bit significand is hi * 2^34 + mid * 2^16 + lo
\* (hi has 19 bits, the first one set; mid 18 bits; lo 16 bits) and its value
\* is significand * 2^e.  Zero is ZeroFloat.  The limbs keep every product
\* below 2^31.
\* ------------------------------------------------------------------------

\* 2^n
Pow2(n) == 2 ^ n

\* Limb widths of a significand (19 + 18 + 16 = 53 bits).
HiBits == 19
MidBits == 18
LoBits == 16

ZeroFloat == [hi |-> 0, mid |-> 0, lo |-> 0, e |-> 0]

\* The least sh with n * 2^sh >= d  (0 < n).
RECURSIVE NormShift(_, _)
NormShift(n, d) == IF n >= d THEN 0 ELSE 1 + NormShift(2 * n, d)

\* The significand plus one: the round-up step; 2^53 renormalises to 2^52.
FloatInc(x) ==
    IF x.lo + 1 < Pow2(LoBits) THEN [x EXCEPT !.lo = x.lo + 1]
    ELSE IF x.mid + 1 < Pow2(MidBits) THEN [x EXCEPT !.lo = 0, !.mid = x.mid + 1]
    ELSE IF x.hi + 1 < Pow2(HiBits)
         THEN [x EXCEPT !.lo = 0, !.mid = 0, !.hi = x.hi + 1]
    ELSE [hi |-> Pow2(HiBits - 1), mid |-> 0, lo |-> 0, e |-> x.e + 1]

\* Round to nearest, ties to even: x is the truncated significand, guard the
\* first dropped bit, below whether any later dropped bit is set.
RoundFloat(x, guard, below) ==
    IF guard = 1 /\ (below \/ x.lo % 2 = 1) THEN FloatInc(x) ELSE x

\* float(n) / float(d) for integers 0 <= n <= d, 0 < d < 2^12.
FloatDiv(n, d) ==
    IF n = 0 THEN ZeroFloat
    ELSE LET sh == NormShift(n, d)
             \* d <= n * 2^sh < 2d: the quotient is 1.bbb... * 2^(-sh); long
             \* division gives the 53 bits after the leading 1, the last of
             \* them being the rounding bit
             r0 == n * Pow2(sh) - d
             c1 == (r0 * Pow2(MidBits)) \div d
             r1 == (r0 * Pow2(MidBits)) % d
             c2 == (r1 * Pow2(MidBits)) \div d
             r2 == (r1 * Pow2(MidBits)) % d
             c3 == (r2 * Pow2(LoBits + 1)) \div d
             r3 == (r2 * Pow2(LoBits + 1)) % d
         IN  RoundFloat([hi |-> Pow2(HiBits - 1) + c1, mid |-> c2,
                         lo |-> c3 \div 2, e |-> 0 - sh - 52],
                        c3 % 2, r3 > 0)

\* 100 * x for a float x: the exact 59- or 60-bit product, rounded to 53 bits.
FloatMul100(x) ==
    IF x = ZeroFloat THEN ZeroFloat
    ELSE LET a    == x.lo * 100
             plo  == a % Pow2(LoBits)
             b    == x.mid * 100 + a \div Pow2(LoBits)
             pmid == b % Pow2(MidBits)
             phi  == x.hi * 100 + b \div Pow2(MidBits)
             \* bits to drop
             k    == IF phi >= Pow2(HiBits + 6) THEN 7 ELSE 6
             drop == plo % Pow2(k)
         IN  RoundFloat([hi  |-> phi \div Pow2(k),
                         mid |-> (phi % Pow2(k)) * Pow2(MidBits - k)
                                   + pmid \div Pow2(k),
                         lo  |-> (pmid % Pow2(k)) * Pow2(LoBits - k)
                                   + plo \div Pow2(k),
                         e   |-> x.e + k],
                        drop \div Pow2(k - 1), drop % Pow2(k - 1) > 0)

\* int(x) for a float 0 <= x < 2^19: truncation.  Such an x has e <= -34, so
\* the integer part lies in the hi limb.
FloatToInt(x) ==
    IF x = ZeroFloat \/ 0 - x.e > 52 THEN 0
    ELSE x.hi \div Pow2(0 - x.e - MidBits - LoBits)

\* int(100 * (rd / (rd+ur))), line 61; defined for rd + ur >= 1.
PercentageRead(rd, ur) == FloatToInt(FloatMul100(FloatDiv(rd, rd + ur)))

\* ------------------------------------------------------------------------
\* Python containers.
\* A dict (and a defaultdict) is a sequence of <<key, value>> pairs in
\* insertion order, which is the order Python iterates it in.
\* ------------------------------------------------------------------------

DictHas(d, k) == \E i \in 1..Len(d) : d[i][1] = k

DictKeys(d) == [i \in 1..Len(d) |-> d[i][1]]

KeySet(d) == {d[i][1] : i \in 1..Len(d)}

\* d[k] for a key that is present.
DictGet(d, k) == d[CHOOSE i \in 1..Len(d) : d[i][1] = k][2]

\* The value a read of d[k] returns when d is a defaultdict with this default.
DefaultGet(d, k, default) == IF DictHas(d, k) THEN DictGet(d, k) ELSE default

\* The defaultdict after a read of d[k]: a missing key is inserted.
DefaultTouch(d, k, default) ==
    IF DictHas(d, k) THEN d ELSE Append(d, <<k, default>>)

\* d[k] = v
DictSet(d, k, v) ==
    IF DictHas(d, k)
    THEN [i \in 1..Len(d) |-> IF d[i][1] = k THEN <<k, v>> ELSE d[i]]
    ELSE Append(d, <<k, v>>)

\* d[k] += by on a defaultdict(int)
DictAdd(d, k, by) == DictSet(d, k, DefaultGet(d, k, 0) + by)

\* ------------------------------------------------------------------------
\* Books, as the engines see them: is_unread, rating and the values
\* property_as_sequence(key_attribute) yields.
\* Keys are the values of the grouping attribute, 0..MaxKey in their natural
\* order.  Key 0 is the attribute's falsy value: the number 0 of a numeric
\* attribute, the empty string of a text one.
\* ------------------------------------------------------------------------

Keys == 0..MaxKey

\* "if key": Python truthiness of a key.
Truthy(key) == key # 0

\* Highest rating; rating 0 is an unrated book (Book.rating is None).
MaxRating == 5

Ratings == 0..MaxRating

\* The ratings of the books Spec builds a BestRankedReport over: unrated,
\* lowest and highest.
SampleRatings == {0, 1, MaxRating}

\* The sequences a book may yield: none, or a run of consecutive keys.
Yields ==
    {<<>>} \cup
    {[i \in 1..(hi - lo + 1) |-> lo + i - 1] :
        <<lo, hi>> \in {p \in Keys \X Keys : p[1] <= p[2]}}

property_as_sequence(book) == book.keys

\* Each entry point reads some of a book's fields only; the others are held
\* at one value.
BooksOf(m) ==
    [is_unread : IF m = "rvu" THEN BOOLEAN ELSE {FALSE},
     rating    : IF m = "br" THEN SampleRatings ELSE {0},
     keys      : Yields]

BookLists(m) == UNION {[1..n -> BooksOf(m)] : n \in 0..MaxBooks}

\* Number of (book, yielded value) occurrences of key k among the books
\* whose is_unread is one of unread.
Occurrences(bs, k, unread) ==
    Cardinality({<<i, j>> \in (1..Len(bs)) \X (1..(MaxKey + 1)) :
                    /\ j <= Len(bs[i].keys)
                    /\ bs[i].keys[j] = k
                    /\ bs[i].is_unread \in unread})

VARIABLES
    mode,                         \* the entry point under study
    books,                        \* the books a constructor is given
    ignore_single_book_groups,
    ignore_undefined_book_groups,
    pc,                           \* "new", then "built"
    grouping_count, read_count, unread_count,        \* ReadVsUnreadReport
    rated_count, cumulative_rating, rating_groupings, \* BestRankedReport
    has_stats,                    \* self.stats exists: process() has run
    stats,                        \* self.stats
    output,                       \* the lines the last render() emitted
    raised,                       \* the exception the last call raised
    ret_dict,                     \* result of get_keys_to_books_dict
    row,                          \* Book(row, as_of_date, patches): the record
    as_of_date,
    patches,
    bk,                           \* bk = Book(...); NoBook before
    last_call                     \* the last render / was_owned_by / was_read_by call

bookVars == <<row, as_of_date, patches, bk, last_call>>

reportVars == <<mode, books, ignore_single_book_groups,
                ignore_undefined_book_groups, pc, grouping_count, read_count,
                unread_count, rated_count, cumulative_rating, rating_groupings,
                has_stats, stats, output, ret_dict>>

vars == <<mode, books, ignore_single_book_groups, ignore_undefined_book_groups,
          pc, grouping_count, read_count, unread_count, rated_count,
          cumulative_rating, rating_groupings, has_stats, stats, output,
          raised, ret_dict, row, as_of_date, patches, bk, last_call>>

NoError == "none"

NoCall == [call |-> "none"]

\* render() has run.
Rendered == last_call.call = "render"

\* ------------------------------------------------------------------------
\* ReadVsUnreadReport
\* ------------------------------------------------------------------------

ReadVsUnreadStat(key, percentage_read, difference) ==
    [key |-> key, percentage_read |-> percentage_read,
     difference |-> difference]

Abs(n) == IF n < 0 THEN 0 - n ELSE n

\* compare_rvustat with the abs() calls of line 26 left out: the second rule
\* compares the signed differences.
compare_rvustat_signed(a, b) ==
    IF a.percentage_read = b.percentage_read
    THEN LET diff_difference == b.difference - a.difference
         IN  IF diff_difference = 0
             THEN (IF a.key > b.key THEN 1 ELSE -1)
             ELSE diff_difference
    ELSE a.percentage_read - b.percentage_read

compare_rvustat(a, b) ==
    IF a.percentage_read = b.percentage_read
    THEN LET diff_difference == Abs(b.difference) - Abs(a.difference)
         IN  IF diff_difference = 0
             THEN (IF a.key > b.key THEN 1 ELSE -1)
             ELSE diff_difference
    ELSE a.percentage_read - b.percentage_read

RvuLt(a, b) == compare_rvustat(a, b) < 0

\* A float quotient num / den of two integers, kept as the exact fraction.
\* Two such floats are equal exactly when the fractions are, and differ by far
\* more than a rounding error otherwise (the denominators are small).
Fraction(num, den) == [num |-> num, den |-> den]

BestRankedStat(key, average_rating, number_of_books_rated) ==
    [key |-> key, average_rating |-> average_rating,
     number_of_books_rated |-> number_of_books_rated]

\* int(x / y) for integers, y > 0: truncation toward zero.
TruncDiv(x, y) == IF x >= 0 THEN x \div y ELSE 0 - ((0 - x) \div y)

\* Line 81 computes int(1000 * (b.average_rating - a.average_rating)) in
\* floats; the exact quotient is truncated here.  The float result can differ
\* from it by one when the exact value is a whole number, which changes
\* neither its sign nor whether it is zero unless the exact value is 1 or -1:
\* that needs a.den * b.den to be a multiple of 1000.
compare_brstat(a, b) ==
    LET x == a.average_rating
        y == b.average_rating
    IN  IF x.num * y.den = y.num * x.den
        THEN b.number_of_books_rated - a.number_of_books_rated
        ELSE TruncDiv(1000 * (y.num * x.den - x.num * y.den), x.den * y.den)

BrLt(a, b) == compare_brstat(a, b) < 0

\* sorting_key = lambda z: z.key
KeyLt(a, b) == a.key < b.key

\* The "a sorts before b" test of each sort key: of cmp_to_key(cmp) it is
\* cmp(a, b) < 0.
SortLt(by, a, b) ==
    IF by = "compare_rvustat" THEN RvuLt(a, b)
    ELSE IF by = "compare_brstat" THEN BrLt(a, b)
    ELSE KeyLt(a, b)

\* sorted(s, key=...): list.sort on a short list is a stable insertion sort
\* that asks only "x < y".
InsertSorted(t, x, by) ==
    LET stops == {j \in 1..Len(t) : ~SortLt(by, x, t[j])}
        p     == IF stops = {} THEN 0
                 ELSE CHOOSE j \in stops : \A i \in stops : i <= j
    IN  SubSeq(t, 1, p) \o <<x>> \o SubSeq(t, p + 1, Len(t))

Sorted(s, by) ==
    LET ins[i \in 0..Len(s)] ==
            IF i = 0 THEN <<>> ELSE InsertSorted(ins[i - 1], s[i], by)
    IN  ins[Len(s)]

\* Lines 46-51 with the unread branch left out: an unread book is counted in
\* grouping_count only.
RvuCountReadOnly(t, book, key, ignore_undefined) ==
    IF Truthy(key) \/ ~ignore_undefined
    THEN [grouping_count |-> DictAdd(t.grouping_count, key, 1),
          unread_count   |-> t.unread_count,
          read_count     |-> IF book.is_unread
                             THEN t.read_count
                             ELSE DictAdd(t.read_count, key, 1)]
    ELSE t

\* Lines 46-51: one key of one book.
RvuCount(t, book, key, ignore_undefined) ==
    IF Truthy(key) \/ ~ignore_undefined
    THEN [grouping_count |-> DictAdd(t.grouping_count, key, 1),
          unread_count   |-> IF book.is_unread
                             THEN DictAdd(t.unread_count, key, 1)
                             ELSE t.unread_count,
          read_count     |-> IF book.is_unread
                             THEN t.read_count
                             ELSE DictAdd(t.read_count, key, 1)]
    ELSE t

\* Lines 44-51: the tables after the first n books (and, of book n + 1, its
\* first j keys).
RECURSIVE RvuTables(_, _, _, _)
RvuTables(bs, n, j, ignore_undefined) ==
    IF n = 0 /\ j = 0
    THEN [grouping_count |-> <<>>, unread_count |-> <<>>, read_count |-> <<>>]
    ELSE IF j = 0
    THEN RvuTables(bs, n - 1, Len(property_as_sequence(bs[n])),
                   ignore_undefined)
    ELSE RvuCount(RvuTables(bs, n, j - 1, ignore_undefined), bs[n + 1],
                  property_as_sequence(bs[n + 1])[j], ignore_undefined)

\* ReadVsUnreadReport.__init__
RvuInit ==
    /\ mode = "rvu" /\ pc = "new"
    /\ LET t == RvuTables(books, Len(books), 0, ignore_undefined_book_groups)
       IN  /\ grouping_count' = t.grouping_count
           /\ read_count' = t.read_count
           /\ unread_count' = t.unread_count
    /\ pc' = "built"
    /\ UNCHANGED bookVars
    /\ UNCHANGED <<mode, books, ignore_single_book_groups,
                   ignore_undefined_book_groups, rated_count,
                   cumulative_rating, rating_groupings, has_stats, stats,
                   output,
                   raised, ret_dict>>

\* Line 58 without its test of ignore_single_book_groups.
RvuSkipsAlways(single, rd, ur) == rd + ur = 1

\* Line 58: the group is left out.
RvuSkips(single, rd, ur) == single /\ rd + ur = 1

\* Lines 55-65: the loop of process() after the first n keys of
\* grouping_count.  zero_division: the except branch was taken.
RECURSIVE RvuProcessLoop(_, _, _, _, _)
RvuProcessLoop(gc, rc, uc, single, n) ==
    IF n = 0
    THEN [stats |-> <<>>, read_count |-> rc, unread_count |-> uc,
          zero_division |-> FALSE]
    ELSE LET prev == RvuProcessLoop(gc, rc, uc, single, n - 1)
             key  == gc[n][1]
             rd   == DefaultGet(prev.read_count, key, 0)
             ur   == DefaultGet(prev.unread_count, key, 0)
             next == [prev EXCEPT
                        !.read_count = DefaultTouch(prev.read_count, key, 0),
                        !.unread_count =
                            DefaultTouch(prev.unread_count, key, 0)]
         IN  IF RvuSkips(single, rd, ur) THEN next
             ELSE IF rd + ur = 0 THEN [next EXCEPT !.zero_division = TRUE]
             ELSE [next EXCEPT !.stats = Append(prev.stats,
                       ReadVsUnreadStat(key, PercentageRead(rd, ur), rd - ur))]

\* ReadVsUnreadReport.process.  The except branch of line 63 calls logging,
\* which the module never imports: it would raise NameError.
RvuProcess ==
    /\ mode = "rvu" /\ pc = "built"
    /\ LET r == RvuProcessLoop(grouping_count, read_count, unread_count,
                               ignore_single_book_groups, Len(grouping_count))
       IN  /\ stats' = r.stats
           /\ has_stats' = TRUE
           /\ read_count' = r.read_count
           /\ unread_count' = r.unread_count
           /\ raised' = IF r.zero_division THEN "NameError" ELSE NoError
    /\ UNCHANGED bookVars
    /\ UNCHANGED <<mode, books, ignore_single_book_groups,
                   ignore_undefined_book_groups, pc, grouping_count,
                   rated_count, cumulative_rating, rating_groupings, output,
                   ret_dict>>

\* Line 70: the line of one stat (key, percentage, difference, group size).
RvuLine(stat, gc) ==
    [key |-> stat.key, percentage_read |-> stat.percentage_read,
     difference |-> stat.difference, total |-> DefaultGet(gc, stat.key, 0)]

\* ReadVsUnreadReport.render
RvuRender ==
    /\ mode = "rvu" /\ pc = "built"
    /\ IF ~has_stats
       THEN /\ raised' = "AttributeError"
            /\ UNCHANGED <<output, grouping_count, last_call>>
       ELSE LET order == Sorted(stats, "compare_rvustat")
            IN  /\ output' = [i \in 1..Len(order) |->
                                 RvuLine(order[i], grouping_count)]
                /\ grouping_count' = grouping_count
                /\ raised' = NoError
                /\ last_call' = [call |-> "render"]
    /\ UNCHANGED <<row, as_of_date, patches, bk>>
    /\ UNCHANGED <<mode, books, ignore_single_book_groups,
                   ignore_undefined_book_groups, pc, read_count, unread_count,
                   rated_count, cumulative_rating, rating_groupings,
                   has_stats, stats,
                   ret_dict>>

\* ------------------------------------------------------------------------
\* BestRankedReport
\* ------------------------------------------------------------------------

\* Line 93: the default histogram; index 0 is a placeholder.
NewHistogram == [r \in Ratings |-> IF r = 0 THEN "None" ELSE 0]

\* Lines 99-102 with line 101 adding one instead of the rating.
BrCountBooks(t, br, key, ignore_undefined) ==
    IF Truthy(key) \/ ~ignore_undefined
    THEN LET hist == DefaultGet(t.rating_groupings, key, NewHistogram)
         IN  [rated_count       |-> DictAdd(t.rated_count, key, 1),
              cumulative_rating |-> DictAdd(t.cumulative_rating, key, 1),
              rating_groupings  |->
                  DictSet(t.rating_groupings, key,
                          [hist EXCEPT ![br] = hist[br] + 1])]
    ELSE t

\* Lines 99-102: one key of one rated book.
BrCount(t, br, key, ignore_undefined) ==
    IF Truthy(key) \/ ~ignore_undefined
    THEN LET hist == DefaultGet(t.rating_groupings, key, NewHistogram)
         IN  [rated_count       |-> DictAdd(t.rated_count, key, 1),
              cumulative_rating |-> DictAdd(t.cumulative_rating, key, br),
              rating_groupings  |->
                  DictSet(t.rating_groupings, key,
                          [hist EXCEPT ![br] = hist[br] + 1])]
    ELSE t

\* Lines 95-102: the tables after the first n books (and, of book n + 1, its
\* first j keys).
RECURSIVE BrTables(_, _, _, _)
BrTables(bs, n, j, ignore_undefined) ==
    IF n = 0 /\ j = 0
    THEN [rated_count |-> <<>>, cumulative_rating |-> <<>>,
          rating_groupings |-> <<>>]
    ELSE IF j = 0
    THEN BrTables(bs, n - 1,
                  IF bs[n].rating # 0
                  THEN Len(property_as_sequence(bs[n])) ELSE 0,
                  ignore_undefined)
    ELSE BrCount(BrTables(bs, n, j - 1, ignore_undefined), bs[n + 1].rating,
                 property_as_sequence(bs[n + 1])[j], ignore_undefined)

\* BestRankedReport.__init__
BrInit ==
    /\ mode = "br" /\ pc = "new"
    /\ LET t == BrTables(books, Len(books), 0, ignore_undefined_book_groups)
       IN  /\ rated_count' = t.rated_count
           /\ cumulative_rating' = t.cumulative_rating
           /\ rating_groupings' = t.rating_groupings
    /\ pc' = "built"
    /\ UNCHANGED bookVars
    /\ UNCHANGED <<mode, books, ignore_single_book_groups,
                   ignore_undefined_book_groups, grouping_count, read_count,
                   unread_count, has_stats, stats, output, raised, ret_dict>>

\* Line 110: the group gets a stat.
BrKeeps(single, rdr) == ~single \/ rdr > 1

\* Lines 108-111: the loop of process() after the first n items of
\* rated_count.  zero_division: line 109 divided by zero, which ends the loop.
RECURSIVE BrProcessLoop(_, _, _, _)
BrProcessLoop(rc, cr, single, n) ==
    IF n = 0
    THEN [stats |-> <<>>, cumulative_rating |-> cr, zero_division |-> FALSE]
    ELSE LET prev == BrProcessLoop(rc, cr, single, n - 1)
             k    == rc[n][1]
             rdr  == rc[n][2]
             next == [prev EXCEPT !.cumulative_rating =
                          DefaultTouch(prev.cumulative_rating, k, 0)]
         IN  IF prev.zero_division THEN prev
             ELSE IF rdr = 0 THEN [next EXCEPT !.zero_division = TRUE]
             ELSE IF BrKeeps(single, rdr)
             THEN [next EXCEPT !.stats = Append(prev.stats,
                      BestRankedStat(k,
                          Fraction(DefaultGet(prev.cumulative_rating, k, 0),
                                   rdr),
                          rdr))]
             ELSE next

\* BestRankedReport.process
BrProcess ==
    /\ mode = "br" /\ pc = "built"
    /\ LET r == BrProcessLoop(rated_count, cumulative_rating,
                              ignore_single_book_groups, Len(rated_count))
       IN  /\ stats' = r.stats
           /\ has_stats' = TRUE
           /\ cumulative_rating' = r.cumulative_rating
           /\ raised' = IF r.zero_division THEN "ZeroDivisionError"
                        ELSE NoError
    /\ UNCHANGED bookVars
    /\ UNCHANGED <<mode, books, ignore_single_book_groups,
                   ignore_undefined_book_groups, pc, grouping_count,
                   read_count, unread_count, rated_count, rating_groupings,
                   output, ret_dict>>

\* Lines 124-129: the line of one stat.  The bar is drawn by
\* utils.display.render_ratings_as_bar from the group's histogram; the line
\* keeps the histogram it is handed.
BrLine(stat, rg, output_bars) ==
    [key |-> stat.key, average_rating |-> stat.average_rating,
     number_of_books_rated |-> stat.number_of_books_rated,
     bars |-> IF output_bars THEN DefaultGet(rg, stat.key, NewHistogram)
              ELSE "none"]

\* BestRankedReport.render(output_function, sort_by_ranking, output_bars)
BrRender(sort_by_ranking, output_bars) ==
    /\ mode = "br" /\ pc = "built"
    /\ IF ~has_stats
       THEN /\ raised' = "AttributeError"
            /\ UNCHANGED <<output, last_call>>
       ELSE LET order == IF sort_by_ranking THEN Sorted(stats, "compare_brstat")
                         ELSE Sorted(stats, "key")
            IN  /\ output' = [i \in 1..Len(order) |->
                                 BrLine(order[i], rating_groupings,
                                        output_bars)]
                /\ raised' = NoError
                /\ last_call' = [call |-> "render",
                                 sort_by_ranking |-> sort_by_ranking,
                                 output_bars |-> output_bars]
    /\ UNCHANGED <<row, as_of_date, patches, bk>>
    /\ UNCHANGED <<mode, books, ignore_single_book_groups,
                   ignore_undefined_book_groups, pc, grouping_count,
                   read_count, unread_count, rated_count, cumulative_rating,
                   rating_groupings, has_stats, stats, ret_dict>>

\* ------------------------------------------------------------------------
\* get_keys_to_books_dict
\* ------------------------------------------------------------------------

\* Lines 150-153: the dict after the first n books (and, of book n + 1, its
\* first j keys).  A book is told from the others by its place in the list.
RECURSIVE KeysToBooks(_, _, _, _)
KeysToBooks(bs, n, j, ignore_undefined) ==
    IF n = 0 /\ j = 0 THEN <<>>
    ELSE IF j = 0
    THEN KeysToBooks(bs, n - 1, Len(property_as_sequence(bs[n])),
                     ignore_undefined)
    ELSE LET prev == KeysToBooks(bs, n, j - 1, ignore_undefined)
             key  == property_as_sequence(bs[n + 1])[j]
         IN  IF Truthy(key) \/ ~ignore_undefined
             THEN DictSet(prev, key, DefaultGet(prev, key, {}) \cup {n + 1})
             ELSE prev

get_keys_to_books_dict ==
    /\ mode = "index" /\ pc = "new"
    /\ ret_dict' = KeysToBooks(books, Len(books), 0,
                               ignore_undefined_book_groups)
    /\ pc' = "built"
    /\ UNCHANGED bookVars
    /\ UNCHANGED <<mode, books, ignore_single_book_groups,
                   ignore_undefined_book_groups, grouping_count, read_count,
                   unread_count, rated_count, cumulative_rating,
                   rating_groupings, has_stats, stats, output, raised>>

\* ------------------------------------------------------------------------
\* Book (utils/book.py), as far as tests/test_book.py and the construction
\* contract describe it: the patch overlay, the as-of date, was_owned_by and
\* was_read_by.  A record is kept to the fields these read: title, state (the
\* exclusive shelf), date_added and date_read.  Dates are day numbers.
\* ------------------------------------------------------------------------

\* Dates are 0..MaxDate.
MaxDate == 2

\* Most patches handed to a Book.
MaxPatches == 2

Dates == 0..MaxDate

\* A blank date field, and a call without as_of_date.
NoDate == -1

\* bk before the constructor ran, and after it raised.
NoBook == [status |-> "unbuilt"]

FailedBook == [status |-> "failed"]

PatchFields == {"title", "state"}

\* The values test_patching and MOCK_BOOK use for these fields.
FieldValues(f) ==
    IF f = "title" THEN {"A Mock Book", "This Will Not Be Applied"}
    ELSE {"read", "to-read"}

FieldPairs == {<<"title", "A Mock Book">>,
               <<"title", "This Will Not Be Applied">>,
               <<"state", "read">>, <<"state", "to-read">>}

\* Lists of (field, value) pairs, as sets: at most one pair for a field.
PairLists ==
    {ps \in SUBSET FieldPairs :
        \A p \in ps, q \in ps : p[1] = q[1] => p = q}

\* A patch: (conditions, assignments).
Patches == PairLists \X PairLists

PatchLists == UNION {[1..n -> Patches] : n \in 0..MaxPatches}

\* MOCK_BOOK, lines 11-29, with its dates left open.
MockBook(added, read) ==
    [title |-> "A Mock Book", state |-> "read",
     date_added |-> added, date_read |-> read]

\* Every condition of the patch holds of the record's values.
PatchMatches(conds, fields) == \A c \in conds : fields[c[1]] = c[2]

\* The assignments of a patch, applied.
PatchAssign(assigns, fields) ==
    [f \in DOMAIN fields |->
        IF \E a \in assigns : a[1] = f
        THEN (CHOOSE a \in assigns : a[1] = f)[2]
        ELSE fields[f]]

\* The overlay that stops at the first matching patch among the first n.
ApplyFirstPatch(ps, original, n) ==
    LET matching == {i \in 1..n : PatchMatches(ps[i][1], original)}
    IN  IF matching = {} THEN original
        ELSE PatchAssign(
                 ps[CHOOSE i \in matching : \A j \in matching : i <= j][2],
                 original)

\* The fields after the first n patches: test_patching has the assignments
\* of its first patch (year_published) and of its second (state) both
\* applied, and its third, which does not match, not.
RECURSIVE ApplyPatches(_, _, _)
ApplyPatches(ps, original, n) ==
    IF n = 0 THEN original
    ELSE LET prev == ApplyPatches(ps, original, n - 1)
         IN  IF PatchMatches(ps[n][1], original)
             THEN PatchAssign(ps[n][2], prev)
             ELSE prev

\* The ownership test with the add-date itself counted as not yet owned.
NotOwnedOn(fields, as_of) == as_of # NoDate /\ as_of <= fields.date_added

\* The as-of date precedes the add-date.
NotOwnedAt(fields, as_of) == as_of # NoDate /\ as_of < fields.date_added

\* Book.is_read: on the read shelf and, in an as-of view, read by then.
IsRead(fields, as_of) ==
    /\ fields.state = "read"
    /\ as_of = NoDate \/ (fields.date_read # NoDate /\ fields.date_read <= as_of)

\* Book.__init__(row, as_of_date, patches)
BookInit ==
    /\ bk = NoBook
    /\ LET fields == ApplyPatches(patches, row, Len(patches))
       IN  IF NotOwnedAt(fields, as_of_date)
           THEN /\ raised' = "NotOwnedAtSpecifiedDateError"
                /\ bk' = FailedBook
           ELSE /\ raised' = NoError
                /\ bk' = [status |-> "built",
                          title |-> fields.title, state |-> fields.state,
                          date_added |-> fields.date_added,
                          date_read |-> fields.date_read,
                          is_read |-> IsRead(fields, as_of_date)]
    /\ UNCHANGED <<row, as_of_date, patches, last_call>>
    /\ UNCHANGED reportVars

Built == bk.status = "built"

WasOwnedBy(b, dt) == b.date_added <= dt

WasReadBy(b, dt) == b.date_read # NoDate /\ b.date_read <= dt

\* Book.was_owned_by(dt)
was_owned_by(dt) ==
    /\ Built
    /\ last_call' = [call |-> "was_owned_by", dt |-> dt,
                  result |-> WasOwnedBy(bk, dt)]
    /\ UNCHANGED <<row, as_of_date, patches, bk, raised>>
    /\ UNCHANGED reportVars

\* Book.was_read_by(dt)
was_read_by(dt) ==
    /\ Built
    /\ last_call' = [call |-> "was_read_by", dt |-> dt,
                  result |-> WasReadBy(bk, dt)]
    /\ UNCHANGED <<row, as_of_date, patches, bk, raised>>
    /\ UNCHANGED reportVars

\* The state of the Book variables in the specifications of the reports.
NoBookCall ==
    /\ row = "none" /\ as_of_date = NoDate /\ patches = <<>>
    /\ bk = NoBook /\ last_call = NoCall

\* The state of the report variables in the specifications of Book.
NoReport ==
    /\ mode = "book" /\ books = <<>>
    /\ ignore_single_book_groups = FALSE
    /\ ignore_undefined_book_groups = FALSE
    /\ pc = "new"
    /\ grouping_count = <<>> /\ read_count = <<>> /\ unread_count = <<>>
    /\ rated_count = <<>> /\ cumulative_rating = <<>>
    /\ rating_groupings = <<>>
    /\ has_stats = FALSE /\ stats = <<>> /\ output = <<>> /\ ret_dict = <<>>

\* SpecPatch: MOCK_BOOK is constructed with a list of patches.
InitPatch ==
    /\ NoReport
    /\ row = MockBook(0, MaxDate)
    /\ as_of_date = NoDate
    /\ patches \in PatchLists
    /\ bk = NoBook /\ last_call = NoCall /\ raised = NoError

NextPatch == BookInit

SpecPatch == InitPatch /\ [][NextPatch]_vars

\* SpecDates: a record with an add-date and, when it was read, a later or
\* equal read-date is constructed, with or without an as-of date, and asked
\* was_owned_by and was_read_by.
InitDates ==
    /\ NoReport
    /\ \E added \in Dates :
          \/ \E read \in Dates : read >= added /\ row = MockBook(added, read)
          \/ row = [MockBook(added, NoDate) EXCEPT !.state = "to-read"]
    /\ as_of_date \in Dates \cup {NoDate}
    /\ patches = <<>>
    /\ bk = NoBook /\ last_call = NoCall /\ raised = NoError

NextDates ==
    \/ BookInit
    \/ \E dt \in Dates : was_owned_by(dt)
    \/ \E dt \in Dates : was_read_by(dt)

SpecDates == InitDates /\ [][NextDates]_vars

\* ------------------------------------------------------------------------
\* Spec: a report is built over a list of books, then processed (and, for
\* ReadVsUnreadReport, rendered) any number of times in any order; or the
\* grouping index is built.
\* ------------------------------------------------------------------------

Empty == <<>>

Init ==
    /\ mode \in {"rvu", "br", "index"}
    /\ books \in BookLists(mode)
    /\ ignore_single_book_groups \in
           (IF mode = "index" THEN {FALSE} ELSE BOOLEAN)
    /\ ignore_undefined_book_groups \in BOOLEAN
    /\ pc = "new"
    /\ grouping_count = Empty /\ read_count = Empty /\ unread_count = Empty
    /\ rated_count = Empty /\ cumulative_rating = Empty
    /\ rating_groupings = Empty
    /\ has_stats = FALSE /\ stats = <<>> /\ output = <<>> /\ raised = NoError
    /\ ret_dict = Empty
    /\ NoBookCall

Next ==
    \/ RvuInit
    \/ RvuProcess
    \/ RvuRender
    \/ BrInit
    \/ BrProcess
    \/ get_keys_to_books_dict

Spec == Init /\ [][Next]_vars

\* ------------------------------------------------------------------------
\* SpecStat: a ReadVsUnreadReport already built, holding one group of rd read
\* and ur unread books (what the constructor leaves after rd + ur books that
\* yield key 1), is processed and rendered.  A report keeps no books.
\* ------------------------------------------------------------------------

\* A defaultdict(int) holds a key only once it was added to.
Counted(key, n) == IF n > 0 THEN << <<key, n>> >> ELSE Empty

InitStat ==
    /\ mode = "rvu"
    /\ books = Empty
    /\ ignore_single_book_groups \in BOOLEAN
    /\ ignore_undefined_book_groups = TRUE
    /\ pc = "built"
    /\ \E rd \in 0..MaxCount, ur \in 0..MaxCount :
          /\ rd + ur >= 1
          /\ grouping_count = Counted(1, rd + ur)
          /\ read_count = Counted(1, rd)
          /\ unread_count = Counted(1, ur)
    /\ rated_count = Empty /\ cumulative_rating = Empty
    /\ rating_groupings = Empty
    /\ has_stats = FALSE /\ stats = <<>> /\ output = <<>> /\ raised = NoError
    /\ ret_dict = Empty
    /\ NoBookCall

NextStat == RvuProcess \/ RvuRender

SpecStat == InitStat /\ [][NextStat]_vars

\* ------------------------------------------------------------------------
\* SpecRank: a BestRankedReport already built, holding two groups, is
\* processed and rendered.  A group of n rated books, `above` of them rated
\* two stars and the others one, has cumulative rating n + above.
\* ------------------------------------------------------------------------

RankHistogram(n, above) == [NewHistogram EXCEPT ![1] = n - above, ![2] = above]

InitRank ==
    /\ mode = "br"
    /\ books = Empty
    /\ ignore_single_book_groups \in BOOLEAN
    /\ ignore_undefined_book_groups = TRUE
    /\ pc = "built"
    /\ grouping_count = Empty /\ read_count = Empty /\ unread_count = Empty
    /\ \E k1 \in 1..2, n1 \in 1..MaxRated, n2 \in 1..MaxRated,
          a1 \in 0..MaxAbove, a2 \in 0..MaxAbove :
          LET k2 == 3 - k1
          IN  /\ a1 <= n1 /\ a2 <= n2
              /\ rated_count = << <<k1, n1>>, <<k2, n2>> >>
              /\ cumulative_rating = << <<k1, n1 + a1>>, <<k2, n2 + a2>> >>
              /\ rating_groupings = << <<k1, RankHistogram(n1, a1)>>,
                                       <<k2, RankHistogram(n2, a2)>> >>
    /\ has_stats = FALSE /\ stats = <<>> /\ output = <<>> /\ raised = NoError
    /\ ret_dict = Empty
    /\ NoBookCall

NextRank ==
    \/ BrProcess
    \/ \E sort_by_ranking \in BOOLEAN, output_bars \in BOOLEAN :
           BrRender(sort_by_ranking, output_bars)

SpecRank == InitRank /\ [][NextRank]_vars
\* ------------------------------------------------------------------------
\* Properties.
\* ------------------------------------------------------------------------

Range(seq) == {seq[i] : i \in 1..Len(seq)}

RvuBuilt == mode = "rvu" /\ pc = "built"

BrBuilt == mode = "br" /\ pc = "built"

\* C1: after ReadVsUnreadReport is constructed, every non-empty value k has
\* grouping_count[k] = the number of (book, yielded value) occurrences of k,
\* unread_count[k] = the number of those from unread books and read_count[k]
\* the number from the other books.  The keys are the values of a numeric
\* attribute here: each of them, 0 included, is a defined, non-empty value.
C1_EveryValueCounted ==
    RvuBuilt =>
        \A k \in Keys :
            /\ DefaultGet(grouping_count, k, 0) = Occurrences(books, k, BOOLEAN)
            /\ DefaultGet(unread_count, k, 0) = Occurrences(books, k, {TRUE})
            /\ DefaultGet(read_count, k, 0) = Occurrences(books, k, {FALSE})

\* The stats process() emitted, with the counts of their groups.
RvuStatCounts ==
    {[stat |-> st, rd |-> DefaultGet(read_count, st.key, 0),
      ur |-> DefaultGet(unread_count, st.key, 0)] : st \in Range(stats)}

\* C2: every stat process() emits for a group of rd read and ur unread
\* members has percentage_read = floor(100 * rd / (rd + ur)), a number in
\* 0..100, and difference = rd - ur.
C2_PercentageIsFloor ==
    (mode = "rvu" /\ has_stats) =>
        \A s \in RvuStatCounts :
            /\ s.stat.percentage_read = (100 * s.rd) \div (s.rd + s.ur)
            /\ s.stat.percentage_read \in 0..100
            /\ s.stat.difference = s.rd - s.ur

\* The order of the rendered lines: ascending percentage; then the larger
\* absolute difference first; then ascending key.
RvuPrecedes(a, b) ==
    \/ a.percentage_read < b.percentage_read
    \/ /\ a.percentage_read = b.percentage_read
       /\ Abs(a.difference) > Abs(b.difference)
    \/ /\ a.percentage_read = b.percentage_read
       /\ Abs(a.difference) = Abs(b.difference)
       /\ a.key < b.key

\* C3: render emits exactly one line per stat of process, in the order of
\* RvuPrecedes, and compare_rvustat is a strict total order on the stats
\* (which have distinct keys): it agrees with RvuPrecedes, is antisymmetric
\* and transitive.
C3_RenderOrder ==
    (mode = "rvu" /\ has_stats) =>
        /\ \A a \in Range(stats), b \in Range(stats) :
              a.key # b.key =>
                  /\ compare_rvustat(a, b) # 0
                  /\ (compare_rvustat(a, b) < 0) <=> RvuPrecedes(a, b)
                  /\ (compare_rvustat(a, b) < 0) <=> (compare_rvustat(b, a) > 0)
        /\ \A a \in Range(stats), b \in Range(stats), c \in Range(stats) :
              (compare_rvustat(a, b) < 0 /\ compare_rvustat(b, c) < 0)
                  => compare_rvustat(a, c) < 0
        /\ Rendered =>
              /\ Len(output) = Len(stats)
              /\ \A st \in Range(stats) :
                    Cardinality({i \in 1..Len(output) :
                        /\ output[i].key = st.key
                        /\ output[i].percentage_read = st.percentage_read
                        /\ output[i].difference = st.difference}) = 1
              /\ \A i \in 1..Len(output), j \in 1..Len(output) :
                    i < j => RvuPrecedes(output[i], output[j])

\* Three lines were rendered; the order of two of them was settled by the
\* absolute difference and the order of two by the key.
C3_Witness ==
    /\ mode = "rvu" /\ Rendered /\ Len(output) = 3
    /\ \E i \in 1..2 :
          /\ output[i].percentage_read = output[i + 1].percentage_read
          /\ Abs(output[i].difference) > Abs(output[i + 1].difference)
    /\ \E i \in 1..2 :
          /\ output[i].percentage_read = output[i + 1].percentage_read
          /\ Abs(output[i].difference) = Abs(output[i + 1].difference)

\* a.average_rating > b.average_rating
RatedHigher(a, b) ==
    a.average_rating.num * b.average_rating.den
        > b.average_rating.num * a.average_rating.den

RatedAlike(a, b) ==
    a.average_rating.num * b.average_rating.den
        = b.average_rating.num * a.average_rating.den

\* C4: when render sorts by ranking, the lines are in descending order of
\* average rating, however close two averages are, and lines of equal average
\* in descending order of the number of books rated.
C4_RankedByAverage ==
    (mode = "br" /\ Rendered /\ last_call.call = "render"
        /\ last_call.sort_by_ranking) =>
        \A i \in 1..Len(output), j \in 1..Len(output) :
            i < j =>
                /\ ~RatedHigher(output[j], output[i])
                /\ RatedAlike(output[i], output[j]) =>
                       output[i].number_of_books_rated
                           >= output[j].number_of_books_rated

\* Sum of weight(r) * h[r] over the ratings 1..r.
RECURSIVE HistogramSum(_, _, _)
HistogramSum(h, r, weighted) ==
    IF r = 0 THEN 0
    ELSE HistogramSum(h, r - 1, weighted)
             + (IF weighted THEN r * h[r] ELSE h[r])

RatedBook(b) == b.rating # 0

\* C5: unrated books leave the tables of BestRankedReport as they are (the
\* tables are those of the rated books alone); every key of rated_count has
\* rated_count >= 1, rated_count = the sum of the histogram over 1..5,
\* cumulative_rating = the sum of r * histogram[r], and index 0 of the
\* histogram untouched; process never divides by zero and every average is
\* between 1 and 5.
C5_OnlyRatedCounted ==
    BrBuilt =>
        /\ LET t == BrTables(SelectSeq(books, RatedBook),
                             Len(SelectSeq(books, RatedBook)), 0,
                             ignore_undefined_book_groups)
           IN  /\ rated_count = t.rated_count
               /\ cumulative_rating = t.cumulative_rating
               /\ rating_groupings = t.rating_groupings
        /\ KeySet(cumulative_rating) = KeySet(rated_count)
        /\ KeySet(rating_groupings) = KeySet(rated_count)
        /\ \A k \in KeySet(rated_count) :
              LET h == DictGet(rating_groupings, k)
              IN  /\ DictGet(rated_count, k) >= 1
                  /\ DictGet(rated_count, k) = HistogramSum(h, MaxRating, FALSE)
                  /\ DictGet(cumulative_rating, k)
                         = HistogramSum(h, MaxRating, TRUE)
                  /\ h[0] = NewHistogram[0]
        /\ raised # "ZeroDivisionError"
        /\ has_stats =>
              \A st \in Range(stats) :
                  /\ st.average_rating.den >= 1
                  /\ st.average_rating.num >= st.average_rating.den
                  /\ st.average_rating.num <= MaxRating * st.average_rating.den

\* Processed; an unrated book yields a key under which another book was
\* counted.
C5_Witness ==
    /\ BrBuilt /\ has_stats /\ stats # <<>>
    /\ \E i \in 1..Len(books) :
          /\ books[i].rating = 0
          /\ \E k \in Range(books[i].keys) :
                DictHas(rated_count, k) /\ DictGet(rated_count, k) = 1

StatKeys == {st.key : st \in Range(stats)}

\* The defaults of ignore_single_book_groups (lines 35 and 86).
RvuIgnoreSingleDefault == TRUE

BrIgnoreSingleDefault == FALSE

RvuTotal(k) == DefaultGet(read_count, k, 0) + DefaultGet(unread_count, k, 0)

YieldsValue(i, v) == v \in Range(property_as_sequence(books[i]))

\* The empty/absent values, None and the empty string: no number is one.
EmptyValue(v) == FALSE

\* C9: get_keys_to_books_dict puts a book in the set of value v exactly when
\* the book yields v and, by default, v is not empty/absent (None or the
\* empty string): every other value, the number 0 included, gets a group.
\* With ignore_undefined_book_groups false every yielded value gets one.  No
\* key maps to an empty set.
C9_IndexOfValues ==
    (mode = "index" /\ pc = "built") =>
        /\ \A v \in KeySet(ret_dict) : DictGet(ret_dict, v) # {}
        /\ \A i \in 1..Len(books), v \in Keys :
              (i \in DefaultGet(ret_dict, v, {}))
                  <=> /\ YieldsValue(i, v)
                      /\ ~(ignore_undefined_book_groups /\ EmptyValue(v))

\* C10: in a built ReadVsUnreadReport every key of grouping_count has
\* grouping_count = read_count + unread_count >= 1 and process never takes
\* its ZeroDivisionError branch; process and render leave grouping_count and
\* every count as they are, and a repeated process yields the same stats.
C10_CountsInv ==
    RvuBuilt =>
        /\ \A k \in KeySet(grouping_count) :
              /\ DictGet(grouping_count, k) = RvuTotal(k)
              /\ DictGet(grouping_count, k) >= 1
        /\ raised # "NameError"

C10_CountsKept ==
    RvuBuilt =>
        /\ grouping_count' = grouping_count
        /\ \A k \in Keys :
              /\ DefaultGet(read_count', k, 0) = DefaultGet(read_count, k, 0)
              /\ DefaultGet(unread_count', k, 0)
                     = DefaultGet(unread_count, k, 0)
        /\ has_stats => stats' = stats

C10_NoZeroDivision == [](C10_CountsInv) /\ [][C10_CountsKept]_vars

\* Processed and rendered; a group without read books got its read_count
\* entry from process.
C10_Witness ==
    /\ RvuBuilt /\ has_stats /\ stats # <<>> /\ Rendered
    /\ \E k \in KeySet(grouping_count) :
          DictHas(read_count, k) /\ DictGet(read_count, k) = 0

\* ------------------------------------------------------------------------
\* Book: the patch overlay and the date-bounded view
\* ------------------------------------------------------------------------

\* The patches whose every condition matches the original record.
MatchingPatches == {i \in 1..Len(patches) : PatchMatches(patches[i][1], row)}

\* The patches of a set that assign field f.
Assigning(is, f) == {i \in is : \E a \in patches[i][2] : a[1] = f}

\* The value patch i assigns to field f.
Assigned(i, f) == (CHOOSE a \in patches[i][2] : a[1] = f)[2]

First(is) == CHOOSE i \in is : \A j \in is : i <= j

Last(is) == CHOOSE i \in is : \A j \in is : j <= i

Constructed == bk.status # "unbuilt"

\* C7: the date-bounded view of a Book added on A and read on R >= A.
\* Constructing it with an as-of date before A raises
\* NotOwnedAtSpecifiedDateError and with any other, or none, succeeds; with
\* A <= as-of < R the Book is not read and its date_read is still R; without
\* an as-of date it is read.  was_owned_by(D) answers D >= A, was_read_by(D)
\* answers D >= R, and a Book read by D was owned by D.
C7_DateBoundedView ==
    /\ Constructed =>
          /\ bk.status = "failed"
                <=> (as_of_date # NoDate /\ as_of_date < row.date_added)
          /\ raised = IF bk.status = "failed"
                      THEN "NotOwnedAtSpecifiedDateError" ELSE NoError
    /\ Built /\ row.date_read # NoDate =>
          /\ bk.date_read = row.date_read
          /\ as_of_date # NoDate /\ as_of_date < row.date_read
                => ~bk.is_read
          /\ as_of_date = NoDate => bk.is_read
          /\ \A dt \in Dates :
                /\ WasOwnedBy(bk, dt) <=> dt >= row.date_added
                /\ WasReadBy(bk, dt) <=> dt >= row.date_read
                /\ WasReadBy(bk, dt) => WasOwnedBy(bk, dt)
    /\ last_call.call = "was_owned_by" =>
          (last_call.result <=> last_call.dt >= row.date_added)
    /\ last_call.call = "was_read_by" =>
          (last_call.result
             <=> (row.date_read # NoDate /\ last_call.dt >= row.date_read))

\* A Book viewed between its add-date and its read-date was constructed, is
\* not read, and answered that it was not read by a date before its
\* read-date.
C7_Witness ==
    /\ Built
    /\ row.date_read # NoDate
    /\ as_of_date # NoDate
    /\ row.date_added <= as_of_date /\ as_of_date < row.date_read
    /\ ~bk.is_read /\ bk.date_read = row.date_read
    /\ last_call.call = "was_read_by"
    /\ last_call.dt < row.date_read
    /\ ~last_call.result

====
